---- MODULE Spec2Model ----
(***************************************************************************)
(* A model of event_channel::channel (include/event_channel.h, the final   *)
(* revision of the header): the event queue, the pending and the active    *)
(* handler registries, the worker thread started by start(), the two       *)
(* dispatch policies and the two idle policies.                            *)
(*                                                                         *)
(* Client calls (subscribe, unsubscribe, send) run under the channel's     *)
(* mutexes and are atomic actions; the worker thread is a sequence of      *)
(* steps, one per critical section or handler call.  An uncaught exception *)
(* on the worker thread ends the process (std::terminate): the model then  *)
(* takes no further step.                                                  *)
(*                                                                         *)
(* Several specifications share the actions:                               *)
(*   Spec           a channel<DispatchPolicy> that is never stopped, with   *)
(*                  every subscribe and unsubscribe form;                   *)
(*   SpecDelivery   the same, with each event remembering the handlers      *)
(*                  subscribed when it was sent;                            *)
(*   SpecIdle       a channel<DispatchPolicy, IdlePolicy> that is stopped   *)
(*                  and started again;                                      *)
(*   SpecTasks      handler calls in two steps, begin and return;           *)
(*   SpecToken      the token objects of subscribe(use_token, ...);         *)
(*   SpecLocks      the calls of two client threads taken lock by lock;     *)
(*   SpecThrow      handlers that may throw;                                *)
(*   SpecReentrant  handlers that call unsubscribe on their channel;        *)
(*   SpecRestart    stop() and start() with the handlers of a shared object;*)
(*   SpecShared     handler calls in two steps and the release of the       *)
(*                  shared object.                                          *)
(***************************************************************************)
EXTENDS Integers, Sequences, FiniteSets, TLC

\* Bounds of the model.
MaxSends == 2        \* send() calls in one behaviour
MaxCallables == 1    \* subscribe(Callable) calls in one behaviour
MaxTokens == 3       \* token objects in one behaviour

VARIABLES
    DispatchPolicy,          \* template parameter: "sequential" or "parallel"
    IdlePolicy,              \* template parameter: keep_events or drop_events
    processing_,             \* channel::processing_
    generic_handler_tagger_, \* channel::generic_handler_tagger_
    events_,                 \* channel::events_, the shared queue
    dispatchers_pending_,    \* channel::dispatchers_pending_
    dispatchers_,            \* channel::dispatchers_
    run_t_,                  \* channel::run_t_: the worker thread and where it is
    events,                  \* the worker's local batch (events, line 634)
    cursor,                  \* index in the batch of the event being dispatched
    waiters,                 \* handlers of the current event still to be called
    iterating,               \* TRUE inside the inner loop of dispatch
    alive,                   \* the shared object still has a strong owner
    caller,                  \* the thread that calls start()/stop(): where it is
    thrown,                  \* the exception that escaped the worker or the last join
    sends,                   \* number of send() calls so far
    discarded,               \* history: the numbers of the send() calls that queued nothing
    called,                  \* history: the handler calls made for the current event
    running,                 \* the handler calls in progress: (tag, event) pairs
    tokens,                  \* token::f_ of every token object
    closure,                 \* the handler that the closure made for a token unsubscribes
    ran,                     \* history: how often each closure has run
    moved_from,              \* history: the tokens last used as the source of a move
    started,                 \* history: the call that just returned is a start()
    held,                    \* the mutexes each client thread has locked
    calling,                 \* the call each client thread is in, step by step
    kept,                    \* history: the handlers subscribed at the last stop()
    unsubscribed             \* history: the (key, tag) pairs of the unsubscribe that just returned

vars == << DispatchPolicy, IdlePolicy, processing_, generic_handler_tagger_,
           events_, dispatchers_pending_, dispatchers_, run_t_, events, cursor,
           waiters, iterating, alive, caller, thrown, sends, discarded, called,
           running, tokens, closure, ran, moved_from, started, held, calling,
           kept, unsubscribed >>

\* The variables of the token objects.
tokenVars == << tokens, closure, ran, moved_from >>

\* The variables of the client threads whose calls are taken lock by lock.
lockVars == << held, calling >>

-----------------------------------------------------------------------------
\* idle_policy
keep_events == TRUE
drop_events == ~keep_events

\* The handlers of the model.  a and b are two member functions of one
\* shared_ptr-held object o, both void (T::*)(int); r is a member function
\* void (U::*)(int) of an object held by raw pointer p; g0, g1, ... are the
\* copies of one Callable g taking a string, one per subscribe(g) call.
SharedMembers == {"a", "b"}
RawMembers == {"r"}
CallableCopies == << "g0", "g1", "g2", "g3", "g4", "g5", "g6", "g7" >>
Callables == { CallableCopies[i] : i \in DOMAIN CallableCopies }
Typed == SharedMembers \cup RawMembers
Handlers == Typed \cup Callables

\* The token objects, each named after its place in the order of creation.
TokenNames == << "t1", "t2", "t3", "t4" >>
Tokens == { TokenNames[i] : i \in 1..MaxTokens }

\* The client threads whose calls are taken lock by lock, and the mutexes.
Clients == { "c1", "c2" }
Mutexes == { "dispatchers_m_", "dispatchers_pending_m_", "events_m_" }
NoCall == [ op |-> "none", arg |-> "" ]

\* The static type of the argument of a send(); the n-th send() call carries
\* the value n.
Types == { "int", "string" }

\* detail::event_type_index<Args...>(): the key of an ordered parameter-type list.
event_type_index(types) == types

\* The parameter-type list each handler is declared with.
Signature(h) == IF h \in Typed THEN << "int" >> ELSE << "string" >>

Keys == { event_type_index(<< "int" >>), event_type_index(<< "string" >>) }

\* Addresses of the objects o and p; typeid(f).hash_code() of the two
\* member-function types.  Counter tags start at 0 and stay below them.
Address == [ o |-> 200, p |-> 300 ]
hash_code(h) == IF h \in SharedMembers THEN 1 ELSE 2
ObjectOf(h) == IF h \in SharedMembers THEN "o" ELSE "p"

\* detail::make_tag(p, f)
make_tag(h) == Address[ObjectOf(h)] + hash_code(h) * 37

\* A make_event that stores other values than the arguments.
make_event_shifted(args) ==
    [ type |-> event_type_index([ i \in DOMAIN args |-> args[i].ty ]),
      tuple |-> [ i \in DOMAIN args |-> args[i].v + 1 ] ]

\* detail::make_event(args...): a std::any holding the tuple of the arguments.
make_event(args) ==
    [ type |-> event_type_index([ i \in DOMAIN args |-> args[i].ty ]),
      tuple |-> [ i \in DOMAIN args |-> args[i].v ] ]

\* detail::event_cast<Args...>(event): std::any_cast to the tuple type.
bad_any_cast == << -1 >>
event_cast(types, event) ==
    IF event.type = event_type_index(types) THEN event.tuple ELSE bad_any_cast

\* std::map helpers.
Put(m, k, v) == [ x \in DOMAIN m \cup {k} |-> IF x = k THEN v ELSE m[x] ]
Erase(m, k) == [ x \in DOMAIN m \ {k} |-> m[x] ]
\* std::map::insert(first, last): an element whose key is present is not inserted.
InsertRange(m, from) ==
    [ x \in DOMAIN m \cup DOMAIN from |-> IF x \in DOMAIN m THEN m[x] ELSE from[x] ]
EmptyMap == << >>

\* dispatchers_pending_[index][tag] = handler
Register(pending, index, tag, handler) ==
    Put(pending, index,
        Put(IF index \in DOMAIN pending THEN pending[index] ELSE EmptyMap, tag, handler))

Min(S) == CHOOSE x \in S : \A y \in S : x <= y

-----------------------------------------------------------------------------
\* A start() that spawns a thread whether or not the channel is processing.
start_always(processing, run) ==
    [ processing |-> TRUE, run |-> IF run = "none" THEN "loop" ELSE "terminate" ]

\* start(): processing_ and run_t_ after the call.  It returns at once when
\* processing_ is set; otherwise it sets it and assigns a new thread to run_t_
\* (std::terminate if run_t_ is still joinable).
start(processing, run) ==
    IF processing
    THEN [ processing |-> processing, run |-> run ]
    ELSE [ processing |-> TRUE, run |-> IF run = "none" THEN "loop" ELSE "terminate" ]

\* A constructor that does not call start().
channel_idle == [ processing |-> FALSE, run |-> "none" ]

\* channel(): processing_(false), generic_handler_tagger_(0), then start().
channel == start(FALSE, "none")

Init ==
    /\ DispatchPolicy \in {"sequential", "parallel"}
    /\ IdlePolicy \in {keep_events, drop_events}
    /\ processing_ = channel.processing
    /\ generic_handler_tagger_ = 0
    /\ events_ = << >>
    /\ dispatchers_pending_ = EmptyMap
    /\ dispatchers_ = EmptyMap
    /\ run_t_ = channel.run
    /\ events = << >>
    /\ cursor = 0
    /\ waiters = {}
    /\ iterating = FALSE
    /\ alive = TRUE
    /\ caller = "idle"
    /\ thrown = "none"
    /\ sends = 0
    /\ discarded = {}
    /\ called = << >>
    /\ running = {}
    /\ tokens = [ t \in Tokens |-> "unborn" ]
    /\ closure = [ t \in Tokens |-> "none" ]
    /\ ran = [ t \in Tokens |-> 0 ]
    /\ moved_from = {}
    /\ started = FALSE
    /\ held = [ c \in Clients |-> {} ]
    /\ calling = [ c \in Clients |-> NoCall ]
    /\ kept = {}
    /\ unsubscribed = {}

\* The process is running: std::terminate has not been called.
Running == run_t_ # "terminate"

\* A worker that unlocks dispatchers_m_ at the end of the block of the merge.
WorkerHolds_merge_only == run_t_ = "merged"

\* dispatchers_m_ is held by the worker from the merge to the end of dispatch.
WorkerHolds_dispatchers_m_ == run_t_ \in { "merged", "dispatch", "deadlock" }

\* A worker that keeps dispatchers_pending_m_ as long as dispatchers_m_.
WorkerHolds_both == run_t_ \in { "merged", "dispatch" }

\* dispatchers_pending_m_ is held by the worker in the block of the merge only.
WorkerHolds_dispatchers_pending_m_ == run_t_ = "merged"

\* The mutexes the worker thread holds, and the mutexes no thread holds.
WorkerHeld ==
    (IF WorkerHolds_dispatchers_m_ THEN { "dispatchers_m_" } ELSE {})
        \cup (IF WorkerHolds_dispatchers_pending_m_ THEN { "dispatchers_pending_m_" } ELSE {})

Free == Mutexes \ (WorkerHeld \cup UNION { held[c] : c \in Clients })

\* A lock of several mutexes that takes them one by one, in any order, and
\* keeps those it has while it waits for the others.
lock_each(free, wanted) == { { m } : m \in wanted \cap free }

\* std::lock(uld, uldp), and the lock of a single mutex by a lock_guard or a
\* unique_lock: the sets of mutexes the call may acquire in one step.  The
\* call returns with every mutex locked and never waits while it holds one.
std_lock(free, wanted) == IF wanted \subseteq free THEN { wanted } ELSE {}

-----------------------------------------------------------------------------
\* History bookkeeping (not part of the program).

\* The tag a handler is registered under.
TagOf(h) ==
    IF h \in Typed
    THEN make_tag(h)
    ELSE CHOOSE t \in 0..(Len(CallableCopies) - 1) : CallableCopies[t + 1] = h

KeyOf(h) == event_type_index(Signature(h))

\* Handler h is the entry of its (key, tag) pair in registry.
In(registry, h) ==
    /\ KeyOf(h) \in DOMAIN registry
    /\ TagOf(h) \in DOMAIN registry[KeyOf(h)]
    /\ registry[KeyOf(h)][TagOf(h)] = h

\* The handlers subscribed for the events of key index.
Subscribed(index) ==
    { h \in Handlers : KeyOf(h) = index /\ (In(dispatchers_, h) \/ In(dispatchers_pending_, h)) }

\* An event of the queue with its history: the value its send() call was
\* given, whether the channel was stopped then or has been stopped since, and
\* (in SpecDelivery) the handlers subscribed then and not unsubscribed since,
\* and those of them unsubscribed since and not subscribed again.
Stamp(event, a, stopped, subs) ==
    [ type |-> event.type, tuple |-> event.tuple,
      sent |-> a.v, held |-> stopped, subs |-> subs, gone |-> {} ]

Held(q) == [ i \in DOMAIN q |-> [ q[i] EXCEPT !.held = TRUE ] ]

Forget(q, pairs) ==
    [ i \in DOMAIN q |->
        [ q[i] EXCEPT !.subs = { h \in @ : << KeyOf(h), TagOf(h) >> \notin pairs },
                      !.gone = @ \cup { h \in q[i].subs : << KeyOf(h), TagOf(h) >> \in pairs } ] ]

Resubscribed(q, h) == [ i \in DOMAIN q |-> [ q[i] EXCEPT !.gone = @ \ {h} ] ]

\* The handlers subscribed at the last stop() that are still subscribed: an
\* unsubscribe of a (key, tag) pair takes its handlers out, and so does a
\* subscribe that registers another handler under the pair.
Unkept(handlers, pairs) == { k \in handlers : << KeyOf(k), TagOf(k) >> \notin pairs }
Superseded(handlers, h) ==
    { k \in handlers : k = h \/ << KeyOf(k), TagOf(k) >> # << KeyOf(h), TagOf(h) >> }

\* The events of a sequence from position from on.
From(q, from) == { q[i] : i \in { j \in DOMAIN q : j >= from } }

-----------------------------------------------------------------------------
\* The handler closures stored in the registries.

\* The closure of subscribe(f), subscribe(p, f) and subscribe(F): it casts the
\* event to the tuple of its parameter types and applies the handler to it.
InvokeDirect(h, event) ==
    [ h |-> h, arg |-> event_cast(Signature(h), event)[1], ran |-> TRUE ]

\* A closure that does not test the lock of the weak_ptr.
InvokeWeak_unchecked(h, event, locked) ==
    [ h |-> h, arg |-> event_cast(Signature(h), event)[1], ran |-> TRUE ]

\* The closure of subscribe(shared_ptr, f): it applies the member function only
\* if the weak_ptr can be locked.
InvokeWeak(h, event, locked) ==
    IF locked
    THEN [ h |-> h, arg |-> event_cast(Signature(h), event)[1], ran |-> TRUE ]
    ELSE [ h |-> h, arg |-> 0, ran |-> FALSE ]

\* dispatcher.second(event): what the call of handler h with event does.
Invoke(h, event, locked) ==
    IF h \in SharedMembers THEN InvokeWeak(h, event, locked) ELSE InvokeDirect(h, event)

-----------------------------------------------------------------------------
\* subscribe(T* p, f), subscribe(shared_ptr<T> const& p, f)
Subscribe(h) ==
    /\ Running
    /\ ~WorkerHolds_dispatchers_pending_m_
    /\ h \in SharedMembers => alive
    /\ dispatchers_pending_' =
           Register(dispatchers_pending_, event_type_index(Signature(h)), make_tag(h), h)
    /\ events_' = Resubscribed(events_, h)
    /\ events' = Resubscribed(events, h)
    /\ kept' = Superseded(kept, h)
    /\ unsubscribed' = {}
    /\ started' = FALSE
    /\ UNCHANGED << lockVars, running, tokenVars, discarded, DispatchPolicy, IdlePolicy, processing_, generic_handler_tagger_,
                    dispatchers_, run_t_, cursor, waiters, iterating,
                    alive, caller, thrown, sends, called >>

\* A counter that is read and not incremented.
no_increment(n) == [ tag |-> n, next |-> n ]

\* The tag that subscribe(F f) registers the closure under and returns, and
\* the counter after the call: return generic_handler_tagger_++.
post_increment(n) == [ tag |-> n, next |-> n + 1 ]

\* handler_tag_t subscribe(F f): the tag is the counter, which is then incremented.
SubscribeCallable ==
    /\ Running
    /\ ~WorkerHolds_dispatchers_pending_m_
    /\ generic_handler_tagger_ < MaxCallables
    /\ LET h == CallableCopies[generic_handler_tagger_ + 1] IN
         dispatchers_pending_' =
             Register(dispatchers_pending_, event_type_index(Signature(h)),
                      post_increment(generic_handler_tagger_).tag, h)
    /\ generic_handler_tagger_' = post_increment(generic_handler_tagger_).next
    /\ unsubscribed' = {}
    /\ started' = FALSE
    /\ UNCHANGED << kept, lockVars, running, tokenVars, discarded, DispatchPolicy, IdlePolicy, processing_, events_, dispatchers_,
                    run_t_, events, cursor, waiters, iterating, alive, caller, thrown,
                    sends, called >>

\* unsubscribe(event_type_index_t const& index, handler_tag_t const& tag): the
\* registries after the call.
unsubscribe_index(active, pending, index, tag) ==
    IF index \in DOMAIN active
    THEN [ active |-> [ active EXCEPT ![index] = Erase(@, tag) ], pending |-> pending ]
    ELSE IF index \in DOMAIN pending
         THEN [ active |-> active, pending |-> [ pending EXCEPT ![index] = Erase(@, tag) ] ]
         ELSE [ active |-> active, pending |-> pending ]

\* unsubscribe(p, f), unsubscribe(shared_ptr, f): they wait for
\* dispatchers_m_, which the worker holds while it dispatches.
Unsubscribe(h) ==
    /\ Running
    /\ ~WorkerHolds_dispatchers_m_
    /\ h \in SharedMembers => alive
    /\ LET after == unsubscribe_index(dispatchers_, dispatchers_pending_,
                                      event_type_index(Signature(h)), make_tag(h)) IN
         /\ dispatchers_' = after.active
         /\ dispatchers_pending_' = after.pending
    /\ unsubscribed' = { << KeyOf(h), make_tag(h) >> }
    /\ started' = FALSE
    /\ events_' = Forget(events_, unsubscribed')
    /\ events' = Forget(events, unsubscribed')
    /\ kept' = Unkept(kept, unsubscribed')
    /\ UNCHANGED << lockVars, running, tokenVars, DispatchPolicy, IdlePolicy, processing_, generic_handler_tagger_,
                    run_t_, cursor, waiters, iterating, alive, caller, thrown, sends,
                    discarded, called >>

\* A scan that stops after the bucket of the first key.
unsubscribe_tag_first_bucket(registry, tag) ==
    [ k \in DOMAIN registry |->
        IF k = event_type_index(<< "int" >>) THEN Erase(registry[k], tag) ELSE registry[k] ]

\* unsubscribe(handler_tag_t tag): one registry after the call.
unsubscribe_tag(registry, tag) ==
    [ k \in DOMAIN registry |-> Erase(registry[k], tag) ]

UnsubscribeTag(tag) ==
    /\ Running
    /\ ~WorkerHolds_dispatchers_m_
    /\ dispatchers_' = unsubscribe_tag(dispatchers_, tag)
    /\ dispatchers_pending_' = unsubscribe_tag(dispatchers_pending_, tag)
    /\ unsubscribed' = { << k, tag >> : k \in Keys }
    /\ started' = FALSE
    /\ events_' = Forget(events_, unsubscribed')
    /\ events' = Forget(events, unsubscribed')
    /\ kept' = Unkept(kept, unsubscribed')
    /\ UNCHANGED << lockVars, running, tokenVars, DispatchPolicy, IdlePolicy, processing_, generic_handler_tagger_,
                    run_t_, cursor, waiters, iterating, alive, caller, thrown, sends,
                    discarded, called >>

\* A send that puts the event at the front of the queue.
send_queue_front(queue, processing, idle, event) ==
    IF processing \/ idle = keep_events THEN << event >> \o queue ELSE queue

\* A send that queues the event whatever the state of the channel.
send_queue_always(queue, processing, idle, event) == Append(queue, event)

\* send(args...): the queue after the call.
send_queue(queue, processing, idle, event) ==
    IF processing \/ idle = keep_events THEN Append(queue, event) ELSE queue

\* send(a) with an argument of type ty; track says whether the event
\* remembers the handlers subscribed now.
Send(ty, track) ==
    /\ Running
    /\ sends < MaxSends
    /\ sends' = sends + 1
    /\ LET a == [ ty |-> ty, v |-> sends' ]
           event == make_event(<< a >>) IN
         events_' = send_queue(events_, processing_, IdlePolicy,
                               Stamp(event, a, ~processing_,
                                     IF track THEN Subscribed(event.type) ELSE {}))
    /\ discarded' = IF ~processing_ /\ IdlePolicy = drop_events
                     THEN discarded \cup {sends'} ELSE discarded
    /\ unsubscribed' = {}
    /\ started' = FALSE
    /\ UNCHANGED << kept, lockVars, running, tokenVars, DispatchPolicy, IdlePolicy, processing_, generic_handler_tagger_,
                    dispatchers_pending_, dispatchers_, run_t_, events, cursor, waiters,
                    iterating, alive, caller, thrown, called >>

\* The last strong owner of the shared object releases it.
Release ==
    /\ Running
    /\ alive
    /\ alive' = FALSE
    /\ unsubscribed' = {}
    /\ started' = FALSE
    /\ UNCHANGED << kept, lockVars, running, tokenVars, discarded, DispatchPolicy, IdlePolicy, processing_, generic_handler_tagger_,
                    events_, dispatchers_pending_, dispatchers_, run_t_, events, cursor,
                    waiters, iterating, caller, thrown, sends, called >>

-----------------------------------------------------------------------------
\* The calls of the client threads c1 and c2, taken lock by lock: a call is
\* entered, it locks the mutexes of its critical section, and it returns with
\* the effect of the critical section and the mutexes unlocked.

\* The calls of a client thread: subscribe(p, f), subscribe(F),
\* unsubscribe(p, f), unsubscribe(tag), send(int), send(std::string).
Calls ==
    { [ op |-> "subscribe", arg |-> h ] : h \in RawMembers }
        \cup { [ op |-> "subscribe_callable", arg |-> "" ] }
        \cup { [ op |-> "unsubscribe", arg |-> h ] : h \in RawMembers }
        \cup { [ op |-> "unsubscribe_tag", arg |-> CallableCopies[1] ] }
        \cup { [ op |-> "send", arg |-> ty ] : ty \in Types }

\* The mutexes the critical section of a call runs under.
Wanted(c) ==
    CASE calling[c].op \in { "subscribe", "subscribe_callable" } -> { "dispatchers_pending_m_" }
      [] calling[c].op \in { "unsubscribe", "unsubscribe_tag" } ->
             { "dispatchers_m_", "dispatchers_pending_m_" }
      [] calling[c].op = "send" -> { "events_m_" }
      [] OTHER -> {}

InCall(c, op) == calling[c].op = op

\* Client c enters a call.
Enter(c, op) ==
    /\ Running
    /\ calling[c] = NoCall
    /\ op.op = "send" => sends + Cardinality({ d \in Clients : InCall(d, "send") }) < MaxSends
    /\ op.op = "subscribe_callable" =>
           generic_handler_tagger_
               + Cardinality({ d \in Clients : InCall(d, "subscribe_callable") }) < MaxCallables
    /\ calling' = [ calling EXCEPT ![c] = op ]
    /\ unsubscribed' = {}
    /\ started' = FALSE
    /\ UNCHANGED << kept, held, running, tokenVars, discarded, DispatchPolicy, IdlePolicy,
                    processing_, generic_handler_tagger_, events_, dispatchers_pending_,
                    dispatchers_, run_t_, events, cursor, waiters, iterating, alive,
                    caller, thrown, sends, called >>

\* The lock at the head of the call: lock_guard, unique_lock or std::lock.
Lock(c) ==
    /\ Running
    /\ calling[c] # NoCall
    /\ held[c] # Wanted(c)
    /\ \E got \in std_lock(Free, Wanted(c) \ held[c]) :
           held' = [ held EXCEPT ![c] = @ \cup got ]
    /\ unsubscribed' = {}
    /\ started' = FALSE
    /\ UNCHANGED << kept, calling, running, tokenVars, discarded, DispatchPolicy, IdlePolicy,
                    processing_, generic_handler_tagger_, events_, dispatchers_pending_,
                    dispatchers_, run_t_, events, cursor, waiters, iterating, alive,
                    caller, thrown, sends, called >>

\* The critical section of the call and its return: the mutexes are unlocked.
Return(c) ==
    /\ Running
    /\ calling[c] # NoCall
    /\ held[c] = Wanted(c)
    /\ held' = [ held EXCEPT ![c] = {} ]
    /\ calling' = [ calling EXCEPT ![c] = NoCall ]
    /\ CASE InCall(c, "subscribe") ->
             LET h == calling[c].arg IN
               /\ dispatchers_pending_' =
                      Register(dispatchers_pending_, event_type_index(Signature(h)),
                               make_tag(h), h)
               /\ unsubscribed' = {}
               /\ UNCHANGED << dispatchers_, generic_handler_tagger_, events_, sends >>
         [] InCall(c, "subscribe_callable") ->
             LET h == CallableCopies[generic_handler_tagger_ + 1] IN
               /\ dispatchers_pending_' =
                      Register(dispatchers_pending_, event_type_index(Signature(h)),
                               post_increment(generic_handler_tagger_).tag, h)
               /\ generic_handler_tagger_' = post_increment(generic_handler_tagger_).next
               /\ unsubscribed' = {}
               /\ UNCHANGED << dispatchers_, events_, sends >>
         [] InCall(c, "unsubscribe") ->
             LET h == calling[c].arg
                 after == unsubscribe_index(dispatchers_, dispatchers_pending_,
                                            event_type_index(Signature(h)), make_tag(h)) IN
               /\ dispatchers_' = after.active
               /\ dispatchers_pending_' = after.pending
               /\ unsubscribed' = { << KeyOf(h), make_tag(h) >> }
               /\ UNCHANGED << generic_handler_tagger_, events_, sends >>
         [] InCall(c, "unsubscribe_tag") ->
             LET tag == TagOf(calling[c].arg) IN
               /\ dispatchers_' = unsubscribe_tag(dispatchers_, tag)
               /\ dispatchers_pending_' = unsubscribe_tag(dispatchers_pending_, tag)
               /\ unsubscribed' = { << k, tag >> : k \in Keys }
               /\ UNCHANGED << generic_handler_tagger_, events_, sends >>
         [] InCall(c, "send") ->
             /\ sends' = sends + 1
             /\ LET a == [ ty |-> calling[c].arg, v |-> sends' ]
                    event == make_event(<< a >>) IN
                  events_' = send_queue(events_, processing_, IdlePolicy,
                                        Stamp(event, a, ~processing_, {}))
             /\ unsubscribed' = {}
             /\ UNCHANGED << dispatchers_, dispatchers_pending_, generic_handler_tagger_ >>
    /\ started' = FALSE
    /\ UNCHANGED << kept, running, tokenVars, discarded, DispatchPolicy, IdlePolicy,
                    processing_, run_t_, events, cursor, waiters, iterating, alive,
                    caller, thrown, called >>

-----------------------------------------------------------------------------
\* class token.  The object named t holds in tokens[t] the name of the closure
\* stored in its f_: "noop" for the default []{}, the name u of the token that
\* subscribe(use_token, ...) returned for the closure made by that call.

Live(t) == tokens[t] \notin { "unborn", "destroyed" }

\* The name of the next token object to be constructed.
NewToken == TokenNames[Cardinality({ t \in Tokens : tokens[t] # "unborn" }) + 1]

\* A swap that leaves the other f_ as it was.
swap_copy(f, a, b) == [ f EXCEPT ![a] = f[b] ]

\* std::swap(f_, other.f_)
swap(f, a, b) == [ f EXCEPT ![a] = f[b], ![b] = f[a] ]

\* token subscribe(use_token const&, T* p, f): subscribe(p, f), then a token
\* constructed from the closure that calls unsubscribe(p, f).
SubscribeToken(h) ==
    /\ Running
    /\ ~WorkerHolds_dispatchers_pending_m_
    /\ \E t \in Tokens : tokens[t] = "unborn"
    /\ dispatchers_pending_' =
           Register(dispatchers_pending_, event_type_index(Signature(h)), make_tag(h), h)
    /\ tokens' = [ tokens EXCEPT ![NewToken] = NewToken ]
    /\ closure' = [ closure EXCEPT ![NewToken] = h ]
    /\ unsubscribed' = {}
    /\ started' = FALSE
    /\ UNCHANGED << kept, lockVars, running, ran, moved_from, discarded, DispatchPolicy, IdlePolicy,
                    processing_, generic_handler_tagger_, events_, dispatchers_, run_t_,
                    events, cursor, waiters, iterating, alive, caller, thrown, sends,
                    called >>

\* token subscribe(use_token const&, F f): subscribe(f), then a token
\* constructed from the closure that calls unsubscribe(handler_tag).
SubscribeCallableToken ==
    /\ Running
    /\ ~WorkerHolds_dispatchers_pending_m_
    /\ \E t \in Tokens : tokens[t] = "unborn"
    /\ generic_handler_tagger_ < Len(CallableCopies)
    /\ LET h == CallableCopies[generic_handler_tagger_ + 1] IN
         /\ dispatchers_pending_' =
                Register(dispatchers_pending_, event_type_index(Signature(h)),
                         post_increment(generic_handler_tagger_).tag, h)
         /\ closure' = [ closure EXCEPT ![NewToken] = h ]
    /\ generic_handler_tagger_' = post_increment(generic_handler_tagger_).next
    /\ tokens' = [ tokens EXCEPT ![NewToken] = NewToken ]
    /\ unsubscribed' = {}
    /\ started' = FALSE
    /\ UNCHANGED << kept, lockVars, running, ran, moved_from, discarded, DispatchPolicy, IdlePolicy,
                    processing_, events_, dispatchers_, run_t_, events, cursor, waiters,
                    iterating, alive, caller, thrown, sends, called >>

\* token(token&& other): f_ is initialised to []{} and swapped with other.f_.
MoveConstruct(other) ==
    /\ Running
    /\ Live(other)
    /\ \E t \in Tokens : tokens[t] = "unborn"
    /\ tokens' = swap([ tokens EXCEPT ![NewToken] = "noop" ], NewToken, other)
    /\ moved_from' = moved_from \cup {other}
    /\ unsubscribed' = {}
    /\ started' = FALSE
    /\ UNCHANGED << kept, lockVars, running, closure, ran, discarded, DispatchPolicy, IdlePolicy,
                    processing_, generic_handler_tagger_, events_, dispatchers_pending_,
                    dispatchers_, run_t_, events, cursor, waiters, iterating, alive,
                    caller, thrown, sends, called >>

\* token& operator=(token&& other)
MoveAssign(this, other) ==
    /\ Running
    /\ Live(this) /\ Live(other)
    /\ this # other
    /\ tokens' = swap(tokens, this, other)
    /\ moved_from' = (moved_from \ {this}) \cup {other}
    /\ unsubscribed' = {}
    /\ started' = FALSE
    /\ UNCHANGED << kept, lockVars, running, closure, ran, discarded, DispatchPolicy, IdlePolicy,
                    processing_, generic_handler_tagger_, events_, dispatchers_pending_,
                    dispatchers_, run_t_, events, cursor, waiters, iterating, alive,
                    caller, thrown, sends, called >>

\* ~token(): f_().  The closure of a subscription calls the unsubscribe of its
\* form, which waits for dispatchers_m_.
Destroy(t) ==
    /\ Running
    /\ Live(t)
    /\ tokens' = [ tokens EXCEPT ![t] = "destroyed" ]
    /\ IF tokens[t] = "noop"
       THEN /\ unsubscribed' = {}
            /\ UNCHANGED << ran, dispatchers_, dispatchers_pending_, events_, events >>
       ELSE LET h == closure[tokens[t]] IN
            /\ ~WorkerHolds_dispatchers_m_
            /\ ran' = [ ran EXCEPT ![tokens[t]] = @ + 1 ]
            /\ IF h \in Typed
               THEN LET after == unsubscribe_index(dispatchers_, dispatchers_pending_,
                                                   event_type_index(Signature(h)),
                                                   make_tag(h)) IN
                      /\ dispatchers_' = after.active
                      /\ dispatchers_pending_' = after.pending
                      /\ unsubscribed' = { << KeyOf(h), make_tag(h) >> }
               ELSE /\ dispatchers_' = unsubscribe_tag(dispatchers_, TagOf(h))
                    /\ dispatchers_pending_' = unsubscribe_tag(dispatchers_pending_, TagOf(h))
                    /\ unsubscribed' = { << k, TagOf(h) >> : k \in Keys }
            /\ events_' = Forget(events_, unsubscribed')
            /\ events' = Forget(events, unsubscribed')
    /\ moved_from' = moved_from \ {t}
    /\ started' = FALSE
    /\ UNCHANGED << kept, lockVars, running, closure, discarded, DispatchPolicy, IdlePolicy,
                    processing_, generic_handler_tagger_, run_t_, cursor, waiters,
                    iterating, alive, caller, thrown, sends, called >>

-----------------------------------------------------------------------------
\* start()
Start ==
    /\ Running
    /\ caller = "idle"
    /\ processing_' = start(processing_, run_t_).processing
    /\ run_t_' = start(processing_, run_t_).run
    /\ unsubscribed' = {}
    /\ started' = TRUE
    /\ UNCHANGED << kept, lockVars, running, tokenVars, discarded, DispatchPolicy, IdlePolicy, generic_handler_tagger_, events_,
                    dispatchers_pending_, dispatchers_, events, cursor, waiters,
                    iterating, alive, caller, thrown, sends, called >>

\* stop(), first block: under events_m_, clear the queue if the policy is
\* drop_events and reset processing_.  track says whether the call remembers
\* the handlers subscribed now.
stop_queue(queue, idle) == IF idle = drop_events THEN << >> ELSE queue

StopBegin(track) ==
    /\ Running
    /\ caller = "idle"
    /\ kept' = IF track THEN UNION { Subscribed(k) : k \in Keys } ELSE kept
    /\ events_' = Held(stop_queue(events_, IdlePolicy))
    /\ processing_' = FALSE
    /\ caller' = "join"
    /\ unsubscribed' = {}
    /\ started' = FALSE
    /\ UNCHANGED << lockVars, running, tokenVars, discarded, DispatchPolicy, IdlePolicy, generic_handler_tagger_,
                    dispatchers_pending_, dispatchers_, run_t_, events, cursor, waiters,
                    iterating, alive, thrown, sends, called >>

\* stop(), run_t_.join(): returns when the worker thread has returned; throws
\* std::system_error when run_t_ is not joinable.
StopJoin ==
    /\ Running
    /\ caller = "join"
    /\ run_t_ \in {"none", "returned"}
    /\ thrown' = IF run_t_ = "none" THEN "system_error" ELSE "none"
    /\ run_t_' = "none"
    /\ caller' = "idle"
    /\ unsubscribed' = {}
    /\ started' = FALSE
    /\ UNCHANGED << kept, lockVars, running, tokenVars, discarded, DispatchPolicy, IdlePolicy, processing_, generic_handler_tagger_,
                    events_, dispatchers_pending_, dispatchers_, events, cursor, waiters,
                    iterating, alive, sends, called >>

-----------------------------------------------------------------------------
\* The worker thread.

\* while(processing_)
WorkerLoop ==
    /\ run_t_ = "loop"
    /\ run_t_' = IF processing_ THEN "wait" ELSE "returned"
    /\ unsubscribed' = {}
    /\ started' = FALSE
    /\ UNCHANGED << kept, lockVars, running, tokenVars, discarded, DispatchPolicy, IdlePolicy, processing_, generic_handler_tagger_,
                    events_, dispatchers_pending_, dispatchers_, events, cursor, waiters,
                    iterating, alive, caller, thrown, sends, called >>

\* A worker that copies the queue into the local batch.
copy_queue(local, shared) == [ events |-> shared, events_ |-> shared ]

\* std::swap(events, events_): the local batch and the shared queue after it.
swap_queue(local, shared) == [ events |-> shared, events_ |-> local ]

\* events_cv_.wait(...), then return or swap the queue into the local batch.
WorkerWait ==
    /\ run_t_ = "wait"
    /\ { "events_m_" } \in std_lock(Free, { "events_m_" })
    /\ ~processing_ \/ events_ # << >>
    /\ IF ~processing_
       THEN /\ run_t_' = "returned"
            /\ UNCHANGED << events, events_ >>
       ELSE /\ events' = swap_queue(events, events_).events
            /\ events_' = swap_queue(events, events_).events_
            /\ run_t_' = "merge"
    /\ unsubscribed' = {}
    /\ started' = FALSE
    /\ UNCHANGED << kept, lockVars, running, tokenVars, discarded, DispatchPolicy, IdlePolicy, processing_, generic_handler_tagger_,
                    dispatchers_pending_, dispatchers_, cursor, waiters, iterating, alive,
                    caller, thrown, sends, called >>

\* The merge loop: dispatchers_[d.first].insert(d.second.begin(), d.second.end())
\* for every bucket d of the pending registry.
merge(active, pending) ==
    [ k \in DOMAIN active \cup DOMAIN pending |->
        IF k \in DOMAIN pending
        THEN InsertRange(IF k \in DOMAIN active THEN active[k] ELSE EmptyMap, pending[k])
        ELSE active[k] ]

\* std::lock(uld, uldp), the merge, dispatchers_pending_.clear().
WorkerMerge ==
    /\ run_t_ = "merge"
    /\ { "dispatchers_m_", "dispatchers_pending_m_" }
           \in std_lock(Free, { "dispatchers_m_", "dispatchers_pending_m_" })
    /\ dispatchers_' = merge(dispatchers_, dispatchers_pending_)
    /\ dispatchers_pending_' = EmptyMap
    /\ run_t_' = "merged"
    /\ cursor' = 1
    /\ unsubscribed' = {}
    /\ started' = FALSE
    /\ UNCHANGED << kept, lockVars, running, tokenVars, discarded, DispatchPolicy, IdlePolicy, processing_, generic_handler_tagger_,
                    events_, events, waiters, iterating, alive, caller, thrown,
                    sends, called >>

\* A lookup that ignores the key, and one that throws for an empty bucket.
at_any(dispatchers, index) ==
    IF DOMAIN dispatchers # {}
    THEN [ found |-> TRUE,
           bucket |-> dispatchers[CHOOSE k \in DOMAIN dispatchers :
                                     k # index \/ DOMAIN dispatchers = {index}] ]
    ELSE [ found |-> FALSE, bucket |-> EmptyMap ]

at_nonempty(dispatchers, index) ==
    IF index \in DOMAIN dispatchers /\ DOMAIN dispatchers[index] # {}
    THEN [ found |-> TRUE, bucket |-> dispatchers[index] ]
    ELSE [ found |-> FALSE, bucket |-> EmptyMap ]

\* End of the block of the merge: uldp is unlocked, uld stays locked.
WorkerUnlock ==
    /\ run_t_ = "merged"
    /\ run_t_' = "dispatch"
    /\ unsubscribed' = {}
    /\ started' = FALSE
    /\ UNCHANGED << kept, lockVars, running, tokenVars, discarded, DispatchPolicy, IdlePolicy, processing_,
                    generic_handler_tagger_, events_, dispatchers_pending_, dispatchers_,
                    events, cursor, waiters, iterating, alive, caller, thrown, sends,
                    called >>

\* dispatchers.at(event.type()): the bucket, or std::out_of_range.
at(dispatchers, index) ==
    IF index \in DOMAIN dispatchers
    THEN [ found |-> TRUE, bucket |-> dispatchers[index] ]
    ELSE [ found |-> FALSE, bucket |-> EmptyMap ]

\* dispatch(), start of the outer loop body for the event at the cursor: the
\* lookup of its bucket.  std::out_of_range is not caught on the worker thread.
DispatchLookup ==
    /\ run_t_ = "dispatch"
    /\ ~iterating
    /\ cursor <= Len(events)
    /\ LET found == at(dispatchers_, events[cursor].type) IN
         IF found.found
         THEN /\ iterating' = TRUE
              /\ waiters' = DOMAIN found.bucket
              /\ UNCHANGED << run_t_, thrown >>
         ELSE /\ run_t_' = "terminate"
              /\ thrown' = "out_of_range"
              /\ UNCHANGED << iterating, waiters >>
    /\ unsubscribed' = {}
    /\ started' = FALSE
    /\ UNCHANGED << kept, lockVars, running, tokenVars, discarded, DispatchPolicy, IdlePolicy, processing_, generic_handler_tagger_,
                    events_, dispatchers_pending_, dispatchers_, events, cursor, alive,
                    caller, sends, called >>

\* The handlers that may be called next: the next one in tag order
\* (sequential), any task not yet run (parallel).
NextCalls(policy, tags) ==
    IF policy = "sequential" THEN { Min(tags) } ELSE tags

\* dispatcher.second(event) for one handler of the current event.
DispatchCall(tag) ==
    /\ run_t_ = "dispatch"
    /\ iterating
    /\ waiters # {}
    /\ tag \in NextCalls(DispatchPolicy, waiters)
    /\ LET event == events[cursor] IN
         called' = Append(called, Invoke(at(dispatchers_, event.type).bucket[tag],
                                         event, alive))
    /\ waiters' = waiters \ {tag}
    /\ unsubscribed' = {}
    /\ started' = FALSE
    /\ UNCHANGED << kept, lockVars, running, tokenVars, discarded, DispatchPolicy, IdlePolicy, processing_, generic_handler_tagger_,
                    events_, dispatchers_pending_, dispatchers_, run_t_, events, cursor,
                    iterating, alive, caller, thrown, sends >>

\* A dispatch that catches what a handler throws.
uncaught_isolated(policy) == "dispatch"

\* Where the worker is after a handler has thrown.  Under sequential the
\* exception leaves dispatcher.second(event), both loops of dispatch() and the
\* thread function: std::terminate.  Under parallel it is stored in the shared
\* state of the future, w.wait() does not rethrow it and the dispatch goes on.
uncaught(policy) == IF policy = "sequential" THEN "terminate" ELSE "dispatch"

\* dispatcher.second(event) for one handler of the current event, the handler
\* throwing an exception.
DispatchCallThrows(tag) ==
    /\ run_t_ = "dispatch"
    /\ iterating
    /\ waiters # {}
    /\ tag \in NextCalls(DispatchPolicy, waiters)
    /\ LET event == events[cursor] IN
         called' = Append(called, Invoke(at(dispatchers_, event.type).bucket[tag],
                                         event, alive))
    /\ waiters' = waiters \ {tag}
    /\ run_t_' = uncaught(DispatchPolicy)
    /\ thrown' = IF DispatchPolicy = "sequential" THEN "handler" ELSE thrown
    /\ unsubscribed' = {}
    /\ started' = FALSE
    /\ UNCHANGED << kept, lockVars, running, tokenVars, discarded, DispatchPolicy, IdlePolicy,
                    processing_, generic_handler_tagger_, events_, dispatchers_pending_,
                    dispatchers_, events, cursor, iterating, alive, caller, sends >>

\* std::lock(uld, uldp) in an unsubscribe called from a handler, while the
\* worker holds dispatchers_m_: where the worker is afterwards.  Under
\* sequential the handler runs on the worker thread, which locks a std::mutex
\* it owns: the behaviour is undefined, the thread blocks for ever or
\* std::system_error (resource_deadlock_would_occur) is thrown and leaves the
\* thread function.  Under parallel the task blocks on the mutex and the
\* worker in w.wait() for the task.
relock(policy) ==
    IF policy = "sequential" THEN { "deadlock", "terminate" } ELSE { "deadlock" }

\* dispatcher.second(event) for one handler of the current event, the handler
\* calling unsubscribe on the channel, directly or in the destructor of a token.
HandlerUnsubscribes(tag) ==
    /\ run_t_ = "dispatch"
    /\ iterating
    /\ waiters # {}
    /\ tag \in NextCalls(DispatchPolicy, waiters)
    /\ LET event == events[cursor] IN
         called' = Append(called, Invoke(at(dispatchers_, event.type).bucket[tag],
                                         event, alive))
    /\ waiters' = waiters \ {tag}
    /\ \E outcome \in relock(DispatchPolicy) :
          /\ run_t_' = outcome
          /\ thrown' = IF outcome = "terminate" THEN "resource_deadlock_would_occur"
                       ELSE thrown
    /\ unsubscribed' = {}
    /\ started' = FALSE
    /\ UNCHANGED << kept, lockVars, running, tokenVars, discarded, DispatchPolicy, IdlePolicy,
                    processing_, generic_handler_tagger_, events_, dispatchers_pending_,
                    dispatchers_, events, cursor, iterating, alive, caller, sends >>

\* A handler call, seen as two steps: the call begins, the call returns.
\* waiters holds the calls that have not begun, running those in progress.

\* The policy of parallel::dispatch under either policy.
Startable_any(policy, tags, inprogress) == tags

\* The handlers whose call may begin: under sequential the next one in tag
\* order once the call before it has returned, under parallel any task.
Startable(policy, tags, inprogress) ==
    IF policy = "sequential"
    THEN IF inprogress = {} /\ tags # {} THEN { Min(tags) } ELSE {}
    ELSE tags

\* dispatcher.second(event) is entered: the closure of a shared object locks
\* its weak_ptr first.
CallBegin(tag) ==
    /\ run_t_ = "dispatch"
    /\ iterating
    /\ tag \in Startable(DispatchPolicy, waiters, running)
    /\ waiters' = waiters \ {tag}
    /\ running' = running \cup { << tag, events[cursor].sent, alive >> }
    /\ unsubscribed' = {}
    /\ started' = FALSE
    /\ UNCHANGED << kept, lockVars, tokenVars, discarded, DispatchPolicy, IdlePolicy, processing_,
                    generic_handler_tagger_, events_, dispatchers_pending_, dispatchers_,
                    run_t_, events, cursor, iterating, alive, caller, thrown, sends,
                    called >>

\* dispatcher.second(event) returns.
CallEnd(call) ==
    /\ run_t_ = "dispatch"
    /\ call \in running
    /\ running' = running \ {call}
    /\ LET event == CHOOSE e \in From(events, 1) : e.sent = call[2] IN
         called' = Append(called, Invoke(at(dispatchers_, event.type).bucket[call[1]],
                                         event, call[3]))
    /\ unsubscribed' = {}
    /\ started' = FALSE
    /\ UNCHANGED << kept, lockVars, tokenVars, discarded, DispatchPolicy, IdlePolicy, processing_,
                    generic_handler_tagger_, events_, dispatchers_pending_, dispatchers_,
                    run_t_, events, cursor, waiters, iterating, alive, caller, thrown,
                    sends >>

\* The tags of the closures of subscribe(shared_ptr, f).
SharedTags == { make_tag(h) : h \in SharedMembers }

\* A closure that keeps the raw pointer of the object only.
holds_raw(entered) == FALSE

\* The closure of subscribe(shared_ptr, f) owns the object during a call it
\* has entered: p, the result of w.lock(), lives to the end of the if statement.
holds(entered) == entered[1] \in SharedTags /\ entered[3]

\* The number of strong owners of the shared object: the owner outside the
\* channel and the closures in a call.  The object is destroyed at zero.
use_count(outside, calls) ==
    (IF outside THEN 1 ELSE 0) + Cardinality({ entered \in calls : holds(entered) })

\* A loop that goes on once every task is launched.
barrier_launch(tags, inprogress) == tags = {}

\* The end of the inner loops: every handler has been called (sequential),
\* every task launched and every future waited for (parallel).
barrier(tags, inprogress) == tags = {} /\ inprogress = {}

\* End of the outer loop body: every handler of the event has returned.
DispatchNext ==
    /\ run_t_ = "dispatch"
    /\ iterating
    /\ barrier(waiters, running)
    /\ iterating' = FALSE
    /\ cursor' = cursor + 1
    /\ called' = << >>
    /\ unsubscribed' = {}
    /\ started' = FALSE
    /\ UNCHANGED << kept, lockVars, running, tokenVars, DispatchPolicy, IdlePolicy, processing_, generic_handler_tagger_,
                    events_, dispatchers_pending_, dispatchers_, run_t_, events, waiters,
                    alive, caller, thrown, sends, discarded >>

\* dispatch() returns: uld is unlocked, events.clear(), back to while(processing_).
DispatchReturn ==
    /\ run_t_ = "dispatch"
    /\ ~iterating
    /\ cursor > Len(events)
    /\ events' = << >>
    /\ cursor' = 0
    /\ run_t_' = "loop"
    /\ unsubscribed' = {}
    /\ started' = FALSE
    /\ UNCHANGED << kept, lockVars, running, tokenVars, DispatchPolicy, IdlePolicy, processing_, generic_handler_tagger_,
                    events_, dispatchers_pending_, dispatchers_, waiters, iterating, alive,
                    caller, thrown, sends, discarded, called >>

Worker ==
    \/ WorkerLoop
    \/ WorkerWait
    \/ WorkerMerge
    \/ WorkerUnlock
    \/ DispatchLookup
    \/ \E tag \in waiters : DispatchCall(tag)
    \/ DispatchNext
    \/ DispatchReturn

\* The worker thread, a handler call in two steps.
WorkerTasks ==
    \/ WorkerLoop
    \/ WorkerWait
    \/ WorkerMerge
    \/ WorkerUnlock
    \/ DispatchLookup
    \/ \E tag \in waiters : CallBegin(tag)
    \/ \E call \in running : CallEnd(call)
    \/ DispatchNext
    \/ DispatchReturn

-----------------------------------------------------------------------------
\* A channel that is never stopped: every subscribe and unsubscribe form.
Next ==
    \/ \E h \in Typed : Subscribe(h)
    \/ SubscribeCallable
    \/ \E h \in Typed : Unsubscribe(h)
    \/ \E tag \in 0..(generic_handler_tagger_ - 1) : UnsubscribeTag(tag)
    \/ \E ty \in Types : Send(ty, FALSE)
    \/ Release
    \/ Worker

\* channel<DispatchPolicy>: the idle policy is the default, keep_events.
InitDefault == Init /\ IdlePolicy = keep_events

Spec == InitDefault /\ [][Next]_vars

\* The same, each event remembering the handlers subscribed at its send().
NextDelivery ==
    \/ \E h \in Typed : Subscribe(h)
    \/ SubscribeCallable
    \/ \E h \in Typed : Unsubscribe(h)
    \/ \E tag \in 0..(generic_handler_tagger_ - 1) : UnsubscribeTag(tag)
    \/ \E ty \in Types : Send(ty, TRUE)
    \/ Release
    \/ Worker

SpecDelivery == InitDefault /\ [][NextDelivery]_vars

\* A channel that is stopped and started, under either idle policy.
NextIdle ==
    \/ \E h \in RawMembers : Subscribe(h)
    \/ SubscribeCallable
    \/ \E h \in RawMembers : Unsubscribe(h)
    \/ \E tag \in 0..(generic_handler_tagger_ - 1) : UnsubscribeTag(tag)
    \/ \E ty \in Types : Send(ty, FALSE)
    \/ Start
    \/ StopBegin(FALSE)
    \/ StopJoin
    \/ Worker

SpecIdle == Init /\ [][NextIdle]_vars

\* A channel that is never stopped, with the handler calls in two steps.
NextTasks ==
    \/ \E h \in Typed : Subscribe(h)
    \/ SubscribeCallable
    \/ \E h \in Typed : Unsubscribe(h)
    \/ \E ty \in Types : Send(ty, FALSE)
    \/ WorkerTasks

SpecTasks == InitDefault /\ [][NextTasks]_vars

\* A channel that is never stopped, with the calls of two client threads
\* taken lock by lock.
NextLocks ==
    \/ \E c \in Clients : \E op \in Calls : Enter(c, op)
    \/ \E c \in Clients : Lock(c)
    \/ \E c \in Clients : Return(c)
    \/ Worker

SpecLocks == InitDefault /\ [][NextLocks]_vars

\* A channel that is never stopped, with handlers that may throw.
NextThrow ==
    \/ \E h \in Typed : Subscribe(h)
    \/ \E ty \in Types : Send(ty, FALSE)
    \/ Worker
    \/ \E tag \in waiters : DispatchCallThrows(tag)

SpecThrow == InitDefault /\ [][NextThrow]_vars

\* A channel that is never stopped, with handlers that may unsubscribe.
NextReentrant ==
    \/ \E h \in Typed : Subscribe(h)
    \/ \E h \in Typed : Unsubscribe(h)
    \/ \E ty \in Types : Send(ty, FALSE)
    \/ Worker
    \/ \E tag \in waiters : HandlerUnsubscribes(tag)

SpecReentrant == InitDefault /\ [][NextReentrant]_vars

\* A channel that is never stopped, with the handler calls in two steps and an
\* owner that releases the shared object at any time.
NextShared ==
    \/ \E h \in Typed : Subscribe(h)
    \/ \E ty \in Types : Send(ty, FALSE)
    \/ Release
    \/ WorkerTasks

SpecShared == InitDefault /\ [][NextShared]_vars

\* A channel that is stopped and started again, with two member functions of
\* one shared object as handlers.
NextRestart ==
    \/ \E h \in SharedMembers : Subscribe(h)
    \/ \E h \in SharedMembers : Unsubscribe(h)
    \/ \E ty \in Types : Send(ty, FALSE)
    \/ Start
    \/ StopBegin(TRUE)
    \/ StopJoin
    \/ Worker

SpecRestart == Init /\ [][NextRestart]_vars

\* The subscriptions of a channel and their token objects, while nothing is
\* sent: the worker waits for events and the registrations stay pending.
NextToken ==
    \/ \E h \in RawMembers : SubscribeToken(h)
    \/ SubscribeCallableToken
    \/ SubscribeCallable
    \/ \E other \in Tokens : MoveConstruct(other)
    \/ \E this, other \in Tokens : MoveAssign(this, other)
    \/ \E t \in Tokens : Destroy(t)

SpecToken == InitDefault /\ [][NextToken]_vars

-----------------------------------------------------------------------------
\* Shorthands of the properties.

\* The worker is at the lookup of the bucket of the event at the cursor.
AtLookup == run_t_ = "dispatch" /\ ~iterating /\ cursor <= Len(events)

\* The worker took the step: only the worker changes these in a dispatch.
WorkerStepped == << run_t_, cursor, iterating, waiters, called, thrown >>' #
                 << run_t_, cursor, iterating, waiters, called, thrown >>

\* The bucket of the event being dispatched, and the handlers called for it.
CurrentBucket == dispatchers_[events[cursor].type]
CalledHandlers == { called[i].h : i \in DOMAIN called }

\* The events that std::terminate left undelivered: the rest of the batch and
\* the shared queue.
Undelivered == From(events, cursor) \cup From(events_, 1)

-----------------------------------------------------------------------------
\* C1: every send is delivered exactly once to each handler that was
\* subscribed for its key at the time of the send and has not been
\* unsubscribed since.  In a behaviour that std::terminate has ended nothing
\* more is delivered, so there no event may be left undelivered for which such
\* a handler is still registered; and no handler is called twice for one event.
C1_DeliveredExactlyOnce ==
    /\ run_t_ = "terminate" =>
          \A e \in Undelivered : \A h \in e.subs :
              ~In(dispatchers_, h) /\ ~In(dispatchers_pending_, h)
    /\ \A i, j \in DOMAIN called : called[i].h = called[j].h => i = j

\* C2: when unsubscribe returns, the tag is in neither the pending nor the
\* active bucket of its key, also when the registration was still pending and
\* the active registry already had a bucket for the key.
C2_UnsubscribeRemovesBoth ==
    \A p \in unsubscribed :
        /\ p[1] \in DOMAIN dispatchers_ => p[2] \notin DOMAIN dispatchers_[p[1]]
        /\ p[1] \in DOMAIN dispatchers_pending_ =>
               p[2] \notin DOMAIN dispatchers_pending_[p[1]]

\* C3: every handler that runs receives the value that was given to the send()
\* of the event being dispatched, under both dispatch policies and for every
\* subscription form.
C3_ValueDelivered ==
    \A i \in DOMAIN called :
        called[i].ran => called[i].arg = events[cursor].sent

C3_Witness ==
    /\ DispatchPolicy = "parallel"
    /\ \E i, j \in DOMAIN called :
          /\ called[i].h \in SharedMembers /\ called[i].ran
          /\ called[j].h \in RawMembers /\ called[j].ran
    /\ events[cursor].sent = 2

\* C4: routing is exact on the key.  Every handler called for an event is
\* registered under the key of the event, and once the dispatch of the event
\* is complete every handler registered under that key has been called, once.
C4_KeyExactRouting ==
    (run_t_ = "dispatch" /\ iterating) =>
        /\ events[cursor].type \in DOMAIN dispatchers_
        /\ \A h \in CalledHandlers : KeyOf(h) = events[cursor].type
        /\ CalledHandlers =
               { CurrentBucket[t] : t \in DOMAIN CurrentBucket \ waiters }
        /\ Len(called) = Cardinality(DOMAIN CurrentBucket \ waiters)

C4_Witness ==
    /\ run_t_ = "dispatch" /\ iterating /\ waiters = {}
    /\ Len(called) = 2
    /\ \E k \in DOMAIN dispatchers_ :
          k # events[cursor].type /\ DOMAIN dispatchers_[k] # {}

\* C7: dispatching an event whose key has no bucket in the active registry is
\* a no-op and the worker stays alive: the worker is never ended by the lookup
\* of such an event.
C7_NoBucketIsNoOp ==
    ~ ( /\ run_t_ = "terminate"
        /\ cursor \in DOMAIN events
        /\ events[cursor].type \notin DOMAIN dispatchers_ )

\* C8: dispatching an event whose bucket exists but is empty calls no handler
\* and raises nothing, and the worker goes on to the next event.
C8_EmptyBucketIsNoOp ==
    [][ /\ ( AtLookup /\ events[cursor].type \in DOMAIN dispatchers_
                      /\ DOMAIN CurrentBucket = {} /\ WorkerStepped )
            => ( run_t_' = "dispatch" /\ iterating' /\ waiters' = {}
                 /\ called' = << >> /\ thrown' = thrown /\ cursor' = cursor )
        /\ ( run_t_ = "dispatch" /\ iterating /\ DOMAIN CurrentBucket = {}
                                 /\ WorkerStepped )
            => ( run_t_' = "dispatch" /\ ~iterating' /\ called = << >>
                 /\ called' = << >> /\ thrown' = thrown /\ cursor' = cursor + 1 )
      ]_vars

C8_Witness ==
    /\ run_t_ = "dispatch" /\ ~iterating /\ cursor = 2
    /\ events[1].type \in DOMAIN dispatchers_
    /\ DOMAIN dispatchers_[events[1].type] = {}
    /\ thrown = "none"

\* C9: registering a second handler under a (key, tag) pair already in use
\* replaces the earlier one: the merge leaves, for every pair of the pending
\* registry, the pending closure in the active registry, whether or not the
\* active registry already had an entry for the pair.
C9_LastWriteWins ==
    [][ (run_t_ = "merge" /\ run_t_' = "merged") =>
            \A k \in DOMAIN dispatchers_pending_ :
                \A t \in DOMAIN dispatchers_pending_[k] :
                    dispatchers_'[k][t] = dispatchers_pending_[k][t]
      ]_vars

\* C10: once the shared object has no strong owner, a call of its handler
\* skips the member function; nothing is raised, the worker goes on, and the
\* other handlers of the event are still called and run.
C10_WeakHandlerSkipped ==
    /\ [][ \A i \in DOMAIN called' \ DOMAIN called :
              /\ called'[i].h \in SharedMembers => (called'[i].ran <=> alive)
              /\ called'[i].h \notin SharedMembers => called'[i].ran
              /\ run_t_' = "dispatch" /\ thrown' = thrown
         ]_vars
    /\ [] ( (run_t_ = "dispatch" /\ iterating /\ waiters = {}) =>
               \A t \in DOMAIN CurrentBucket :
                   \E i \in DOMAIN called : called[i].h = CurrentBucket[t] )

C10_Witness ==
    /\ DispatchPolicy = "sequential"
    /\ ~alive
    /\ Len(called) = 2
    /\ called[1].h \in SharedMembers /\ ~called[1].ran
    /\ called[2].h \in RawMembers /\ called[2].ran

-----------------------------------------------------------------------------
\* C5: under drop_events a send() issued while the channel is stopped leaves
\* the queue as it was, and its event is never in the queue, never in a batch
\* and never given to a handler, before or after a later start().
C5_DropWhileStopped ==
    /\ [][ (sends' = sends + 1 /\ ~processing_ /\ IdlePolicy = drop_events)
              => events_' = events_ ]_vars
    /\ [] ( /\ \A e \in From(events_, 1) \cup From(events, 1) : e.sent \notin discarded
            /\ \A i \in DOMAIN called : called[i].arg \notin discarded )

C5_Witness ==
    /\ IdlePolicy = drop_events
    /\ discarded = {1}
    /\ processing_
    /\ \E i \in DOMAIN called : called[i].ran /\ called[i].arg = 2

\* C6: under keep_events an event sent while the channel is stopped, or still
\* queued at stop(), stays queued and is delivered to the handlers of its key
\* once start() resumes.  An event of the batch that was held has been taken
\* from the queue by the worker of a later start(); in a behaviour that
\* std::terminate has ended nothing more is delivered, so there no such event
\* may be left undelivered while the active registry has a handler for its key.
C6_KeptEventsDelivered ==
    (run_t_ = "terminate" /\ IdlePolicy = keep_events) =>
        \A e \in From(events, cursor) :
            e.held => (e.type \in DOMAIN dispatchers_ => DOMAIN dispatchers_[e.type] = {})

-----------------------------------------------------------------------------
\* The tokens that hold closure c.
Holders(c) == { t \in Tokens : tokens[t] = c }

\* C11: the closure that subscribe(use_token, ...) stores in the token it
\* returns runs exactly once, however often ownership is moved.  A closure
\* never runs twice; until it has run exactly one token holds it, after that
\* none does (so it has run once when every token is destroyed); and it runs
\* only in the destruction of the token that holds it.
C11_ClosureRunsOnce ==
    /\ [] ( \A c \in Tokens :
              IF closure[c] = "none"
              THEN ran[c] = 0 /\ Holders(c) = {}
              ELSE /\ ran[c] <= 1
                   /\ ran[c] = 0 => Cardinality(Holders(c)) = 1
                   /\ ran[c] = 1 => Holders(c) = {} )
    /\ [][ \A c \in Tokens :
              ran'[c] # ran[c] =>
                  \E t \in Holders(c) : tokens'[t] = "destroyed" /\ ran'[c] = ran[c] + 1
         ]_vars

C11_Witness ==
    /\ closure = [ t \in Tokens |-> IF t = "t1" THEN "r" ELSE "none" ]
    /\ tokens = [ t \in Tokens |-> "destroyed" ]
    /\ ran["t1"] = 1

\* C12: destroying a token that was the source of a move construction or of a
\* move assignment (and has not been assigned to since) runs no closure,
\* whatever the destination held before the move.
C12_MovedFromIsNoop ==
    [][ \A t \in moved_from :
            (Live(t) /\ tokens'[t] = "destroyed") => ran' = ran
      ]_vars

\* C20: the tags that subscribe(F) returns are the values 0, 1, 2, ... of the
\* counter in the order of the calls: a call registers its copy of the
\* Callable under the value of the counter and increments the counter, and
\* every tag in use is below the counter, so that a later call returns a
\* greater tag.
C20_TagsIncrease ==
    /\ [] ( \A registry \in { dispatchers_, dispatchers_pending_ } :
              \A k \in DOMAIN registry : \A t \in DOMAIN registry[k] :
                  registry[k][t] \in Callables =>
                      t < generic_handler_tagger_ /\ registry[k][t] = CallableCopies[t + 1] )
    /\ [][ generic_handler_tagger_' # generic_handler_tagger_ =>
              /\ generic_handler_tagger_' = generic_handler_tagger_ + 1
              /\ LET index == KeyOf(CallableCopies[1]) IN
                   /\ index \in DOMAIN dispatchers_pending_'
                   /\ generic_handler_tagger_ \in DOMAIN dispatchers_pending_'[index]
                   /\ dispatchers_pending_'[index][generic_handler_tagger_] \in Callables
                   /\ \A t \in DOMAIN dispatchers_pending_'[index] :
                          (t # generic_handler_tagger_
                             /\ dispatchers_pending_'[index][t] \in Callables)
                              => t < generic_handler_tagger_
         ]_vars

C20_Witness ==
    /\ generic_handler_tagger_ = 2
    /\ KeyOf(CallableCopies[1]) \in DOMAIN dispatchers_pending_
    /\ DOMAIN dispatchers_pending_[KeyOf(CallableCopies[1])] = {0, 1}

-----------------------------------------------------------------------------
\* C13: events are delivered in the order in which they were appended to the
\* queue.  While an event is dispatched, every event still to be dispatched,
\* in the rest of the batch or in the queue, was appended after it; so of two
\* events a handler receives, it receives first the one appended first, within
\* a batch and across batches, under both dispatch policies.
C13_DeliveredInAppendOrder ==
    /\ \A i, j \in DOMAIN events : i < j => events[i].sent < events[j].sent
    /\ \A i, j \in DOMAIN events_ : i < j => events_[i].sent < events_[j].sent
    /\ \A e \in From(events, 1) : \A later \in From(events_, 1) : e.sent < later.sent
    /\ \A i \in DOMAIN called : called[i].ran => called[i].arg = events[cursor].sent

C13_Witness ==
    /\ cursor = 2 /\ Len(events) = 2
    /\ events[1].type = events[2].type
    /\ called # << >> /\ called[1].ran /\ called[1].arg = 2
    /\ events[1].sent = 1

\* C14: under parallel there is a barrier after each event.  Every handler
\* call in progress belongs to the event at the cursor, and the cursor moves
\* to the next event only when no call is in progress.
C14_ParallelBarrier ==
    /\ [] ( DispatchPolicy = "parallel" =>
               \A call \in running :
                   /\ run_t_ = "dispatch" /\ iterating
                   /\ call[2] = events[cursor].sent )
    /\ [][ (DispatchPolicy = "parallel" /\ cursor' # cursor) => running = {} ]_vars

C14_Witness ==
    /\ DispatchPolicy = "parallel"
    /\ Cardinality(running) = 2
    /\ cursor = 1 /\ Len(events) = 2

\* C15: under sequential at most one handler call is in progress at any
\* instant: a call begins only when none is in progress, and the cursor moves
\* to the next event only when none is in progress.
C15_SequentialOneAtATime ==
    /\ [] ( DispatchPolicy = "sequential" => Cardinality(running) <= 1 )
    /\ [][ DispatchPolicy = "sequential" =>
              /\ running' # running /\ running' # {} => running = {}
              /\ cursor' # cursor => running = {}
         ]_vars

C15_Witness ==
    /\ DispatchPolicy = "sequential"
    /\ Cardinality(running) = 1
    /\ waiters # {}

\* C16: a start() call on a running channel changes nothing, and the worker
\* thread is never replaced while it lives: no start() ever assigns a thread
\* to a run_t_ that is still joinable, and a start() that does create a thread
\* finds no worker left.
C16_StartIdempotent ==
    /\ [][ (started' /\ processing_) =>
              UNCHANGED << processing_, run_t_, events_, events, dispatchers_,
                           dispatchers_pending_, generic_handler_tagger_, cursor,
                           waiters, iterating, running, called, caller, thrown >>
         ]_vars
    /\ [] ( run_t_ = "terminate" => thrown = "out_of_range" )
    /\ [] ( (caller = "idle" /\ ~processing_ /\ Running) => run_t_ = "none" )

C16_Witness ==
    /\ started /\ processing_
    /\ run_t_ = "dispatch" /\ iterating /\ called # << >>

\* C17: stop() joins the worker.  When stop() has returned and start() has not
\* been called since, the worker thread has ended and no handler is being
\* called; and stop() returns: in a behaviour that std::terminate has ended no
\* stop() call is left waiting.
C17_StopJoins ==
    /\ (caller = "idle" /\ ~processing_ /\ Running) =>
           /\ run_t_ = "none"
           /\ ~iterating /\ waiters = {} /\ running = {} /\ called = << >>
    /\ run_t_ = "terminate" => caller # "join"

C19_SubscribeNeverBlocks ==
    run_t_ = "dispatch" =>
        /\ ~WorkerHolds_dispatchers_pending_m_
        /\ \A h \in RawMembers : ENABLED Subscribe(h)
        /\ alive => \A h \in SharedMembers : ENABLED Subscribe(h)
        /\ generic_handler_tagger_ < MaxCallables => ENABLED SubscribeCallable

C19_Witness ==
    /\ run_t_ = "dispatch" /\ running # {}
    /\ dispatchers_pending_ # EmptyMap
    /\ \E k \in DOMAIN dispatchers_pending_ : DOMAIN dispatchers_pending_[k] # {}

-----------------------------------------------------------------------------
\* Client c is in a call and waits for the mutexes of its critical section.
Waiting(c) == calling[c] # NoCall /\ held[c] # Wanted(c)

\* C21: the calls of the client threads and the worker never deadlock over
\* events_m_, dispatchers_m_ and dispatchers_pending_m_.  No thread holds one
\* mutex while it waits for another, so no cycle of waiting threads exists:
\* a waiting client holds nothing and gets its mutexes as soon as they are
\* free, a client that holds its mutexes can return, and the worker, which
\* holds mutexes only from the merge to the end of the dispatch, can go on
\* whenever it holds one and can merge as soon as both registry mutexes are
\* free.
C21_NoLockDeadlock ==
    Running =>
        /\ \A c \in Clients :
              /\ Waiting(c) => held[c] = {}
              /\ (Waiting(c) /\ Wanted(c) \subseteq Free) => ENABLED Lock(c)
              /\ (calling[c] # NoCall /\ ~Waiting(c)) => ENABLED Return(c)
        /\ \A c, d \in Clients : c # d => held[c] \cap held[d] = {}
        /\ \A c \in Clients : held[c] \cap WorkerHeld = {}
        /\ WorkerHeld # {} => ENABLED Worker
        /\ (run_t_ = "merge"
              /\ { "dispatchers_m_", "dispatchers_pending_m_" } \subseteq Free)
             => ENABLED WorkerMerge

C21_Witness ==
    /\ run_t_ = "merged"
    /\ Waiting("c1") /\ InCall("c1", "unsubscribe")
    /\ InCall("c2", "send") /\ held["c2"] = { "events_m_" }
    /\ dispatchers_ # EmptyMap

\* The unsubscribe calls of the client threads.
Unsubscribing(c) == calling[c].op \in { "unsubscribe", "unsubscribe_tag" }

\* C22: unsubscribing blocks while events are processed.  From the merge to
\* the end of the dispatch of the batch the active registry is not modified,
\* an unsubscribe call in progress holds no mutex, and no unsubscribe call
\* returns: a call made during the dispatch returns after the batch is done.
C22_UnsubscribeBlocksDuringDispatch ==
    /\ [][ (run_t_ \in { "merged", "dispatch" }) =>
              /\ dispatchers_' = dispatchers_
              /\ \A c \in Clients : Unsubscribing(c) => calling'[c] = calling[c]
         ]_vars
    /\ [] ( run_t_ \in { "merged", "dispatch" } =>
               \A c \in Clients : Unsubscribing(c) => held[c] = {} )

C22_Witness ==
    /\ run_t_ = "dispatch" /\ iterating /\ called # << >>
    /\ In(dispatchers_, "r")
    /\ InCall("c1", "unsubscribe") /\ Waiting("c1")

\* C23: send never waits for the dispatch.  The worker takes the whole queue
\* as its batch and leaves the queue empty; it never holds events_m_ while it
\* merges or dispatches, so a send() that waits, waits for another client
\* only; a send() appends its event to the queue and leaves the batch alone,
\* and the batch in flight changes only when its dispatch is over.
C23_SendNeverWaits ==
    /\ [][ /\ (run_t_ = "wait" /\ run_t_' = "merge") =>
                  events' = events_ /\ events_' = << >> /\ events = << >>
           /\ sends' # sends =>
                  /\ events' = events
                  /\ Len(events_') = Len(events_) + 1
                  /\ \A i \in DOMAIN events_ : events_'[i] = events_[i]
                  /\ events_'[Len(events_')].sent = sends'
           /\ (run_t_ \in { "merge", "merged", "dispatch" } /\ events' # events) =>
                  /\ run_t_' = "loop" /\ events' = << >>
                  /\ cursor > Len(events) /\ ~iterating
         ]_vars
    /\ [] ( /\ "events_m_" \notin WorkerHeld
            /\ \A c \in Clients :
                  (Running /\ InCall(c, "send") /\ Waiting(c)
                     /\ \A d \in Clients : "events_m_" \notin held[d])
                  => ENABLED Lock(c) )

C23_Witness ==
    /\ run_t_ = "dispatch" /\ iterating /\ called # << >>
    /\ Len(events) = 1 /\ events[1].sent = 1
    /\ Len(events_) = 1 /\ events_[1].sent = 2

\* C24: stop() does not cancel the batch in flight.  While stop() waits in
\* join() the batch the worker took before the flag was reset is still there
\* to be dispatched, and when stop() has returned the whole batch has been
\* dispatched; in a behaviour that std::terminate has ended during a stop()
\* nothing more is dispatched, so there no event of the batch may be left for
\* which the active registry has a handler.
C24_StopKeepsBatch ==
    /\ (caller = "idle" /\ ~processing_ /\ Running) => events = << >> /\ cursor = 0
    /\ (caller = "join" /\ run_t_ = "terminate") =>
           \A e \in From(events, cursor) :
               e.type \in DOMAIN dispatchers_ => DOMAIN dispatchers_[e.type] = {}

\* The (key, tag, closure) entries of a registry.
Entries(registry) ==
    UNION { { << k, t, registry[k][t] >> : t \in DOMAIN registry[k] } : k \in DOMAIN registry }

\* The step is the merge of the worker.
MergeStep == run_t_ = "merge" /\ run_t_' = "merged"

\* C25: entries enter the active registry only through the merge of the
\* worker.  A step that adds an entry to the pending registry leaves the
\* active registry, the queue and the batch unchanged; a step that adds an
\* entry to the active registry is the merge; the merge leaves every entry of
\* every bucket of the pending registry in the active registry, and the
\* pending registry empty.
C25_ActiveOnlyByMerge ==
    [][ /\ (Entries(dispatchers_pending_') \ Entries(dispatchers_pending_) # {}) =>
              dispatchers_' = dispatchers_ /\ events_' = events_ /\ events' = events
        /\ (Entries(dispatchers_') \ Entries(dispatchers_) # {}) => MergeStep
        /\ MergeStep =>
              /\ Entries(dispatchers_pending_) \subseteq Entries(dispatchers_')
              /\ dispatchers_pending_' = EmptyMap
      ]_vars

\* The step is an unsubscribe(tag) call that returns.
UnsubscribedTag(tag) == unsubscribed' = { << k, tag >> : k \in Keys }

\* C26: unsubscribe(tag) scans every bucket of both registries.  When it
\* returns no bucket of the active or of the pending registry has an entry
\* with the tag; every entry with another tag and every bucket is still
\* there; the queue, the batch and the run state are unchanged.
C26_UnsubscribeTagScansAll ==
    [][ \A tag \in 0..(Len(CallableCopies) - 1) :
            UnsubscribedTag(tag) =>
                /\ Entries(dispatchers_') = { e \in Entries(dispatchers_) : e[2] # tag }
                /\ Entries(dispatchers_pending_') =
                       { e \in Entries(dispatchers_pending_) : e[2] # tag }
                /\ DOMAIN dispatchers_' = DOMAIN dispatchers_
                /\ DOMAIN dispatchers_pending_' = DOMAIN dispatchers_pending_
                /\ UNCHANGED << events_, events, processing_, run_t_, cursor, waiters,
                                iterating, called, generic_handler_tagger_, thrown >>
      ]_vars

C26_Witness ==
    /\ unsubscribed = { << k, 0 >> : k \in Keys }
    /\ event_type_index(<< "string" >>) \in DOMAIN dispatchers_
    /\ Entries(dispatchers_) = { << event_type_index(<< "int" >>), make_tag("r"), "r" >> }
    /\ events_ # << >>

\* C27: under sequential an exception thrown by a handler is not isolated.
\* It ends the worker: once a handler has thrown, the worker has ended and no
\* handler is called any more, neither the remaining handlers of the event
\* nor those of the remaining events of the batch or of the events queued
\* later, which stay where they are.
C27_ThrowEndsWorker ==
    /\ [] ( (DispatchPolicy = "sequential" /\ thrown = "handler") => run_t_ = "terminate" )
    /\ [][ (DispatchPolicy = "sequential" /\ thrown = "handler") =>
              UNCHANGED << called, waiters, cursor, events, run_t_ >>
         ]_vars
    /\ [][ (DispatchPolicy = "sequential" /\ thrown' = "handler" /\ thrown # "handler") =>
              /\ run_t_ = "dispatch" /\ run_t_' = "terminate"
              /\ Len(called') = Len(called) + 1
              /\ UNCHANGED << cursor, events, events_ >>
         ]_vars

C27_Witness ==
    /\ DispatchPolicy = "sequential"
    /\ thrown = "handler"
    /\ run_t_ = "terminate"
    /\ Len(called) = 1 /\ waiters # {}
    /\ cursor < Len(events)

\* C28: every sequence of start() and stop() calls, the stop() of the
\* destructor included, completes without error: no stop() reaches
\* run_t_.join() with a thread that is not joinable, and no call throws
\* std::system_error.
C28_StopIsSafe ==
    /\ ~ (Running /\ caller = "join" /\ run_t_ = "none")
    /\ thrown # "system_error"

\* C29: an unsubscribe called from a handler completes and the dispatch goes
\* on: the worker is never blocked for ever in the dispatch of an event, and
\* the lock of the mutex it holds never throws.
C29_ReentrantUnsubscribeCompletes ==
    /\ run_t_ # "deadlock"
    /\ thrown # "resource_deadlock_would_occur"

\* C30: the handlers called for an event are those of its bucket in the
\* active registry after the merge that precedes its batch, whatever was
\* subscribed at the send.  Every handler called for the event is in that
\* bucket, and a handler that was unsubscribed after the send and before the
\* merge, and not subscribed again, is not called for the event.
C30_HandlersFixedAtMerge ==
    /\ (run_t_ = "dispatch" /\ iterating) =>
           CalledHandlers \subseteq { CurrentBucket[t] : t \in DOMAIN CurrentBucket }
    /\ \A i \in DOMAIN called : called[i].h \notin events[cursor].gone

\* The step is part of a stop() or a start() call.
StopOrStart == caller' # caller \/ started'

\* C31: subscriptions persist across stop() and start().  No step of stop()
\* or of start() changes the pending or the active registry; and once the
\* channel has been started again, every handler that was subscribed at the
\* stop() and has not been unsubscribed or replaced since has been called
\* when the dispatch of an event of its key is complete.
C31_SubscriptionsPersist ==
    /\ [][ StopOrStart => UNCHANGED << dispatchers_, dispatchers_pending_ >> ]_vars
    /\ [] ( (processing_ /\ run_t_ = "dispatch" /\ iterating /\ waiters = {}) =>
               \A h \in kept : KeyOf(h) = events[cursor].type => h \in CalledHandlers )

\* C32: a handler subscribed through a shared object is invoked on a live
\* object or not at all.  A call of the closure enters the member function
\* exactly if the object has an owner then; while a call that has entered it
\* is in progress the object has an owner, also when the owner outside the
\* channel releases it meanwhile; a call that has not entered it runs nothing.
C32_LiveTargetOrSkipped ==
    /\ [] ( \A entered \in running :
               (entered[1] \in SharedTags /\ entered[3]) => use_count(alive, running) > 0 )
    /\ [][ /\ \A entered \in running' \ running :
                  entered[1] \in SharedTags => (entered[3] <=> use_count(alive, running) > 0)
           /\ \A i \in DOMAIN called' \ DOMAIN called :
                  called'[i].h \in SharedMembers =>
                      \E entered \in running \ running' :
                          /\ entered[1] = make_tag(called'[i].h)
                          /\ called'[i].ran <=> entered[3]
                          /\ called'[i].ran => use_count(alive, running) > 0
         ]_vars

C32_Witness ==
    /\ ~alive
    /\ \E entered \in running : entered[1] \in SharedTags /\ entered[3]
    /\ use_count(alive, running) = 1
====
